---------------------------- MODULE Spec2Model ----------------------------
(***************************************************************************)
(* Model of src-tauri/src/lib.rs: the LauncherError taxonomy, the          *)
(* conversion From<std::io::Error>, the logging macros and the two         *)
(* commands greet and copy_to_clipboard.                                   *)
(*                                                                         *)
(* A Rust String is modelled as the sequence of its characters, each a     *)
(* one-character string.  The standard streams are sequences of the        *)
(* chunks handed to write_str, each chunk tagged with the invocation and   *)
(* the statement that wrote it.                                            *)
(***************************************************************************)
EXTENDS Integers, Sequences, FiniteSets, TLC

(* ------------------------------ bounds --------------------------------- *)

\* number of invocations the host makes in one behaviour
MaxCalls == 2

Calls == 1..MaxCalls

(* ------------------------------- texts --------------------------------- *)

\* A text is the sequence of its characters.

\* "World"
Str_World ==
  <<"W", "o", "r", "l", "d">>

\* "{}"
Str_Braces ==
  <<"{", "}">>

\* "{name}"
Str_BracedName ==
  <<"{", "n", "a", "m", "e", "}">>

\* "{}{}"
Str_TwoBraces ==
  <<"{", "}", "{", "}">>

\* "hello"
Str_hello ==
  <<"h", "e", "l", "l", "o">>

\* "hé"
Str_he ==
  <<"h", "é">>

\* "hello, world"
Str_hello_world ==
  <<"h", "e", "l", "l", "o", ",", " ", "w", "o", "r", "l", "d">>

\* "boom"
Str_boom ==
  <<"b", "o", "o", "m">>

\* "Failed to read file {path}: {details}"
Tmpl_FileReadFailed ==
  <<"F", "a", "i", "l", "e", "d", " ", "t", "o", " ", "r", "e", "a", "d",
    " ", "f", "i", "l", "e", " ", "{", "p", "a", "t", "h", "}", ":", " ",
    "{", "d", "e", "t", "a", "i", "l", "s", "}">>

\* "Failed to write file {path}: {details}"
Tmpl_FileWriteFailed ==
  <<"F", "a", "i", "l", "e", "d", " ", "t", "o", " ", "w", "r", "i", "t",
    "e", " ", "f", "i", "l", "e", " ", "{", "p", "a", "t", "h", "}", ":",
    " ", "{", "d", "e", "t", "a", "i", "l", "s", "}">>

\* "Clipboard operation failed"
Tmpl_ClipboardFailed ==
  <<"C", "l", "i", "p", "b", "o", "a", "r", "d", " ", "o", "p", "e", "r",
    "a", "t", "i", "o", "n", " ", "f", "a", "i", "l", "e", "d">>

\* "Permission denied: {}"
Tmpl_PermissionDenied ==
  <<"P", "e", "r", "m", "i", "s", "s", "i", "o", "n", " ", "d", "e", "n",
    "i", "e", "d", ":", " ", "{", "}">>

\* "Hello, {}! You've been greeted from Rust!"
Tmpl_greet ==
  <<"H", "e", "l", "l", "o", ",", " ", "{", "}", "!", " ", "Y", "o", "u",
    "'", "v", "e", " ", "b", "e", "e", "n", " ", "g", "r", "e", "e", "t",
    "e", "d", " ", "f", "r", "o", "m", " ", "R", "u", "s", "t", "!">>

\* "Copy to clipboard requested for text of length: {}"
Tmpl_copy_info ==
  <<"C", "o", "p", "y", " ", "t", "o", " ", "c", "l", "i", "p", "b", "o",
    "a", "r", "d", " ", "r", "e", "q", "u", "e", "s", "t", "e", "d", " ",
    "f", "o", "r", " ", "t", "e", "x", "t", " ", "o", "f", " ", "l", "e",
    "n", "g", "t", "h", ":", " ", "{", "}">>

\* "Clipboard functionality not implemented - frontend should handle this"
Str_copy_warn ==
  <<"C", "l", "i", "p", "b", "o", "a", "r", "d", " ", "f", "u", "n", "c",
    "t", "i", "o", "n", "a", "l", "i", "t", "y", " ", "n", "o", "t", " ",
    "i", "m", "p", "l", "e", "m", "e", "n", "t", "e", "d", " ", "-", " ",
    "f", "r", "o", "n", "t", "e", "n", "d", " ", "s", "h", "o", "u", "l",
    "d", " ", "h", "a", "n", "d", "l", "e", " ", "t", "h", "i", "s">>

\* "[ERROR] {}\n"
Tmpl_log_error ==
  <<"[", "E", "R", "R", "O", "R", "]", " ", "{", "}", "\n">>

\* "[INFO] {}\n"
Tmpl_log_info ==
  <<"[", "I", "N", "F", "O", "]", " ", "{", "}", "\n">>

\* "[WARN] {}\n"
Tmpl_log_warn ==
  <<"[", "W", "A", "R", "N", "]", " ", "{", "}", "\n">>

\* "unknown"
Str_unknown ==
  <<"u", "n", "k", "n", "o", "w", "n">>

\* "No such file or directory (os error 2)"
Str_os_error_2 ==
  <<"N", "o", " ", "s", "u", "c", "h", " ", "f", "i", "l", "e", " ", "o",
    "r", " ", "d", "i", "r", "e", "c", "t", "o", "r", "y", " ", "(", "o",
    "s", " ", "e", "r", "r", "o", "r", " ", "2", ")">>

\* "Permission denied (os error 13)"
Str_os_error_13 ==
  <<"P", "e", "r", "m", "i", "s", "s", "i", "o", "n", " ", "d", "e", "n",
    "i", "e", "d", " ", "(", "o", "s", " ", "e", "r", "r", "o", "r", " ",
    "1", "3", ")">>

\* "disk full"
Str_disk_full ==
  <<"d", "i", "s", "k", " ", "f", "u", "l", "l">>

\* "a"
Str_a ==
  <<"a">>

\* "b"
Str_b ==
  <<"b">>

\* "{details}"
Str_BracedDetails ==
  <<"{", "d", "e", "t", "a", "i", "l", "s", "}">>

\* "path"
Str_path ==
  <<"p", "a", "t", "h">>

\* "details"
Str_details ==
  <<"d", "e", "t", "a", "i", "l", "s">>

\* "name"
Str_name ==
  <<"n", "a", "m", "e">>

\* texts the properties below are stated with

\* "Hello, "
Txt_Hello ==
  <<"H", "e", "l", "l", "o", ",", " ">>

\* "! You've been greeted from Rust!"
Txt_Greeted ==
  <<"!", " ", "Y", "o", "u", "'", "v", "e", " ", "b", "e", "e", "n", " ",
    "g", "r", "e", "e", "t", "e", "d", " ", "f", "r", "o", "m", " ", "R",
    "u", "s", "t", "!">>

\* "Failed to read file "
Txt_FailedToRead ==
  <<"F", "a", "i", "l", "e", "d", " ", "t", "o", " ", "r", "e", "a", "d",
    " ", "f", "i", "l", "e", " ">>

\* "Failed to write file "
Txt_FailedToWrite ==
  <<"F", "a", "i", "l", "e", "d", " ", "t", "o", " ", "w", "r", "i", "t",
    "e", " ", "f", "i", "l", "e", " ">>

\* ": "
Txt_Colon ==
  <<":", " ">>

\* "Permission denied: "
Txt_PermissionDenied ==
  <<"P", "e", "r", "m", "i", "s", "s", "i", "o", "n", " ", "d", "e", "n",
    "i", "e", "d", ":", " ">>

\* "[INFO] Copy to clipboard requested for text of length: "
Txt_InfoHead ==
  <<"[", "I", "N", "F", "O", "]", " ", "C", "o", "p", "y", " ", "t", "o",
    " ", "c", "l", "i", "p", "b", "o", "a", "r", "d", " ", "r", "e", "q",
    "u", "e", "s", "t", "e", "d", " ", "f", "o", "r", " ", "t", "e", "x",
    "t", " ", "o", "f", " ", "l", "e", "n", "g", "t", "h", ":", " ">>

\* "[WARN] Clipboard functionality not implemented - frontend should handle this\n"
Txt_WarnLine ==
  <<"[", "W", "A", "R", "N", "]", " ", "C", "l", "i", "p", "b", "o", "a",
    "r", "d", " ", "f", "u", "n", "c", "t", "i", "o", "n", "a", "l", "i",
    "t", "y", " ", "n", "o", "t", " ", "i", "m", "p", "l", "e", "m", "e",
    "n", "t", "e", "d", " ", "-", " ", "f", "r", "o", "n", "t", "e", "n",
    "d", " ", "s", "h", "o", "u", "l", "d", " ", "h", "a", "n", "d", "l",
    "e", " ", "t", "h", "i", "s", "\n">>

\* "[INFO] "
Txt_INFO ==
  <<"[", "I", "N", "F", "O", "]", " ">>

\* "[WARN] "
Txt_WARN ==
  <<"[", "W", "A", "R", "N", "]", " ">>

\* "[ERROR] "
Txt_ERROR ==
  <<"[", "E", "R", "R", "O", "R", "]", " ">>

\* "[ERROR]"
Txt_ERROR_tag ==
  <<"[", "E", "R", "R", "O", "R", "]">>

\* "of length: 5\n[WARN] "
Txt_Length5ThenWarn ==
  <<"o", "f", " ", "l", "e", "n", "g", "t", "h", ":", " ", "5", "\n", "[",
    "W", "A", "R", "N", "]", " ">>

\* "[ERROR] boom\n"
Txt_ErrorBoomLine ==
  <<"[", "E", "R", "R", "O", "R", "]", " ", "b", "o", "o", "m", "\n">>

\* "Failed to read file a: b"
Txt_FailedToRead_a_b ==
  <<"F", "a", "i", "l", "e", "d", " ", "t", "o", " ", "r", "e", "a", "d",
    " ", "f", "i", "l", "e", " ", "a", ":", " ", "b">>

\* "Clipboard operation failed"
Txt_ClipboardFailed ==
  <<"C", "l", "i", "p", "b", "o", "a", "r", "d", " ", "o", "p", "e", "r",
    "a", "t", "i", "o", "n", " ", "f", "a", "i", "l", "e", "d">>

\* names the host passes to greet
Names == {<<>>, Str_World, Str_Braces, Str_BracedName, Str_TwoBraces}

\* texts the host passes to copy_to_clipboard
Texts == {<<>>, Str_hello, Str_he, Str_hello_world}

\* messages passed to log_error!
ErrorMessages == {Str_boom}

(* --------------------------- string helpers ---------------------------- *)

Min(S) == CHOOSE m \in S : \A n \in S : m <= n

CharAt(s, i) == s[i]

From(s, i) == SubSeq(s, i, Len(s))

\* index of the first occurrence of the character c in s, Len(s)+1 if none
Find(s, c) ==
  LET idx == {i \in 1..Len(s) : CharAt(s, i) = c}
  IN  IF idx = {} THEN Len(s) + 1 ELSE Min(idx)

Contains(hay, needle) ==
  \E i \in 1..(Len(hay) + 1) :
     /\ i + Len(needle) - 1 <= Len(hay)
     /\ SubSeq(hay, i, i + Len(needle) - 1) = needle

StartsWith(s, p) == Len(p) <= Len(s) /\ SubSeq(s, 1, Len(p)) = p

RECURSIVE Concat(_)
Concat(ps) == IF ps = <<>> THEN <<>> ELSE Head(ps) \o Concat(Tail(ps))

\* number of bytes of the UTF-8 encoding of one character
Utf8Width(c) == IF c = "é" THEN 2 ELSE 1

\* str::len: the length in bytes, not in characters
RECURSIVE StrLen(_)
StrLen(s) == IF s = <<>> THEN 0 ELSE Utf8Width(CharAt(s, 1)) + StrLen(From(s, 2))

Digit(d) == <<"0", "1", "2", "3", "4", "5", "6", "7", "8", "9">>[d + 1]

\* Display for usize: decimal digits, most significant first
RECURSIVE DisplayUsize(_)
DisplayUsize(n) ==
  IF n < 10 THEN <<Digit(n)>> ELSE DisplayUsize(n \div 10) \o <<Digit(n % 10)>>

(* ------------------------------ format! -------------------------------- *)

\* The pieces format_args! hands to write_str, in order: the template is
\* scanned once; a literal run is one piece, a placeholder {} takes the next
\* positional argument and {name} the named one.  An argument's text is a
\* piece of its own and is never scanned.
RECURSIVE FmtPieces(_, _, _, _)
FmtPieces(tmpl, pos, named, k) ==
  IF tmpl = <<>> THEN <<>>
  ELSE IF CharAt(tmpl, 1) = "{"
       THEN LET close == Find(tmpl, "}")
                name  == SubSeq(tmpl, 2, close - 1)
                rest  == From(tmpl, close + 1)
            IN  IF name = <<>>
                THEN <<pos[k]>> \o FmtPieces(rest, pos, named, k + 1)
                ELSE <<named[name]>> \o FmtPieces(rest, pos, named, k)
       ELSE LET open == Find(tmpl, "{")
            IN  <<SubSeq(tmpl, 1, open - 1)>>
                  \o FmtPieces(From(tmpl, open), pos, named, k)

Format(tmpl, pos, named) == Concat(FmtPieces(tmpl, pos, named, 1))

NoNamed == [n \in {} |-> <<>>]

\* the named arguments of the #[error] templates
Fields(path, details) == (Str_path :> path) @@ (Str_details :> details)

(* ---------------------------- LauncherError ---------------------------- *)

FileReadFailed(path, details) ==
  [tag |-> "FileReadFailed", path |-> path, details |-> details]

FileWriteFailed(path, details) ==
  [tag |-> "FileWriteFailed", path |-> path, details |-> details]

ClipboardFailed == [tag |-> "ClipboardFailed"]

\* to_string with the two fields of FileWriteFailed in each other's place
to_string_swapped(e) ==
  CASE e.tag = "FileReadFailed" ->
         Format(Tmpl_FileReadFailed, <<>>,
                Fields(e.path, e.details))
    [] e.tag = "FileWriteFailed" ->
         Format(Tmpl_FileWriteFailed, <<>>,
                Fields(e.details, e.path))
    [] e.tag = "ClipboardFailed" ->
         Format(Tmpl_ClipboardFailed, <<>>, NoNamed)

\* #[error("...")]: the Display implementation thiserror derives
to_string(e) ==
  CASE e.tag = "FileReadFailed" ->
         Format(Tmpl_FileReadFailed, <<>>,
                Fields(e.path, e.details))
    [] e.tag = "FileWriteFailed" ->
         Format(Tmpl_FileWriteFailed, <<>>,
                Fields(e.path, e.details))
    [] e.tag = "ClipboardFailed" ->
         Format(Tmpl_ClipboardFailed, <<>>, NoNamed)

\* std::io::Error as the conversion sees it: kind() and to_string()
IoKinds == {"NotFound", "PermissionDenied", "AlreadyExists", "Other"}

IoTexts == {<<>>, Str_os_error_2,
            Str_os_error_13, Str_disk_full}

IoErrors == [kind : IoKinds, text : IoTexts]

\* from with a default arm that builds the other file variant
from_write_default(err) ==
  CASE err.kind = "NotFound" ->
         FileReadFailed(Str_unknown, err.text)
    [] err.kind = "PermissionDenied" ->
         FileReadFailed(Str_unknown,
                        Format(Tmpl_PermissionDenied, <<err.text>>, NoNamed))
    [] OTHER ->
         FileWriteFailed(Str_unknown, err.text)

\* from with a PermissionDenied arm that adds no prefix
from_unprefixed(err) ==
  CASE err.kind = "NotFound" ->
         FileReadFailed(Str_unknown, err.text)
    [] err.kind = "PermissionDenied" ->
         FileReadFailed(Str_unknown, err.text)
    [] OTHER ->
         FileReadFailed(Str_unknown, err.text)

\* impl From<std::io::Error> for LauncherError
from(err) ==
  CASE err.kind = "NotFound" ->
         FileReadFailed(Str_unknown, err.text)
    [] err.kind = "PermissionDenied" ->
         FileReadFailed(Str_unknown,
                        Format(Tmpl_PermissionDenied, <<err.text>>, NoNamed))
    [] OTHER ->
         FileReadFailed(Str_unknown, err.text)

(* ------------------------------ commands ------------------------------- *)

Ok(v)  == [tag |-> "Ok", value |-> v]
Err(e) == [tag |-> "Err", value |-> e]
Pending == [tag |-> "Pending", value |-> <<>>]

\* greet with the name spliced into the template before it is scanned
greet_rescan(name) ==
  Format(Txt_Hello \o name \o Txt_Greeted,
         <<name, name>>, (Str_name :> name))

\* fn greet(name: &str) -> String
greet(name) ==
  Format(Tmpl_greet, <<name>>, NoNamed)

\* copy_to_clipboard reporting success
copy_to_clipboard_result_ok == Ok(<<>>)

\* the value copy_to_clipboard returns
copy_to_clipboard_result == Err(to_string(ClipboardFailed))

\* the message with the number of characters in place of text.len()
copy_info_message_chars(text) ==
  Format(Tmpl_copy_info,
         <<DisplayUsize(Len(text))>>, NoNamed)

\* the String built by the inner format! of log_info!(msg, args)
copy_info_message(text) ==
  Format(Tmpl_copy_info,
         <<DisplayUsize(StrLen(text))>>, NoNamed)

copy_warn_message == Str_copy_warn

\* log_error! written with println!
log_error_stdout(msg) ==
  [stream |-> "stdout", tmpl |-> Tmpl_log_error, arg |-> msg]

\* println!/eprintln! with the template of each macro; format_args_nl!
\* appends the newline to the template
log_error(msg) == [stream |-> "stderr", tmpl |-> Tmpl_log_error, arg |-> msg]
log_info(msg)  == [stream |-> "stdout", tmpl |-> Tmpl_log_info, arg |-> msg]
log_warn(msg)  == [stream |-> "stdout", tmpl |-> Tmpl_log_warn, arg |-> msg]

(* ------------------------------- state --------------------------------- *)

VARIABLES
  cmd,      \* cmd[i]: what invocation i runs
  arg,      \* arg[i]: its argument string
  pc,       \* pc[i]: the statement invocation i is at
  buf,      \* buf[i]: the String its inner format! built
  written,  \* written[i]: pieces of the current println! already written
  result,   \* result[i]: the value it returned to the host
  streams,  \* streams.stdout, streams.stderr: the chunks written so far
  lock,     \* lock.stdout, lock.stderr: the invocation holding the lock, 0 if free
  ioErr,    \* ioErr[s]: the std::io::Error value s was converted from
  lerr,     \* lerr[s]: the LauncherError held in s
  shown     \* shown[s]: the renderings made of lerr[s], in order

cmdVars == <<cmd, arg, pc, buf, written, result, streams, lock>>
errVars == <<ioErr, lerr, shown>>
vars == <<cmd, arg, pc, buf, written, result, streams, lock, ioErr, lerr, shown>>

Slots == {"s1", "s2"}

\* renderings recorded per value
MaxRenders == 2

NoIoError == [kind |-> "None", text |-> <<>>]
NoError   == [tag |-> "None"]

Paths   == {<<>>, Str_a, Str_BracedDetails}
Details == {<<>>, Str_b}

\* the values the three constructors build
Constructed ==
  {FileReadFailed(p, d) : p \in Paths, d \in Details}
    \cup {FileWriteFailed(p, d) : p \in Paths, d \in Details}
    \cup {ClipboardFailed}

Init ==
  /\ cmd = [i \in Calls |-> "none"]
  /\ arg = [i \in Calls |-> <<>>]
  /\ pc = [i \in Calls |-> "idle"]
  /\ buf = [i \in Calls |-> <<>>]
  /\ written = [i \in Calls |-> 0]
  /\ result = [i \in Calls |-> Pending]
  /\ streams = [stdout |-> <<>>, stderr |-> <<>>]
  /\ lock = [stdout |-> 0, stderr |-> 0]
  /\ ioErr = [s \in Slots |-> NoIoError]
  /\ lerr = [s \in Slots |-> NoError]
  /\ shown = [s \in Slots |-> <<>>]

(* --------------------------- command layer ----------------------------- *)

\* Invoke with the argument kept in storage all invocations share
Invoke_shared(i, c, a) ==
  /\ pc[i] = "idle"
  /\ \A j \in Calls : j < i => pc[j] # "idle"
  /\ cmd' = [cmd EXCEPT ![i] = c]
  /\ arg' = [j \in Calls |-> a]
  /\ pc' = [pc EXCEPT ![i] = CASE c = "greet" -> "greet"
                                [] c = "copy_to_clipboard" -> "copy_info_fmt"
                                [] c = "log_error" -> "log_error"]
  /\ UNCHANGED <<buf, written, result, streams, lock, errVars>>

\* the host invokes a command (generate_handler!) or uses log_error!;
\* invocations are numbered in the order they start
Invoke(i, c, a) ==
  /\ pc[i] = "idle"
  /\ \A j \in Calls : j < i => pc[j] # "idle"
  /\ cmd' = [cmd EXCEPT ![i] = c]
  /\ arg' = [arg EXCEPT ![i] = a]
  /\ pc' = [pc EXCEPT ![i] = CASE c = "greet" -> "greet"
                                [] c = "copy_to_clipboard" -> "copy_info_fmt"
                                [] c = "log_error" -> "log_error"]
  /\ UNCHANGED <<buf, written, result, streams, lock, errVars>>

GreetReturn(i) ==
  /\ pc[i] = "greet"
  /\ result' = [result EXCEPT ![i] = Ok(greet(arg[i]))]
  /\ pc' = [pc EXCEPT ![i] = "done"]
  /\ UNCHANGED <<cmd, arg, buf, written, streams, lock, errVars>>

\* log_info!(msg, args): the inner format! builds the message first
CopyFormatInfo(i) ==
  /\ pc[i] = "copy_info_fmt"
  /\ buf' = [buf EXCEPT ![i] = copy_info_message(arg[i])]
  /\ pc' = [pc EXCEPT ![i] = "copy_info"]
  /\ UNCHANGED <<cmd, arg, written, result, streams, lock, errVars>>

Printing == {"copy_info", "copy_warn", "log_error"}

\* Stmt with the two statements of copy_to_clipboard in each other's place
Stmt_swapped(i) ==
  CASE pc[i] = "copy_info" -> log_warn(copy_warn_message)
    [] pc[i] = "copy_warn" -> log_info(buf[i])
    [] pc[i] = "log_error" -> log_error(arg[i])

\* the println!/eprintln! invocation i is executing
Stmt(i) ==
  CASE pc[i] = "copy_info" -> log_info(buf[i])
    [] pc[i] = "copy_warn" -> log_warn(copy_warn_message)
    [] pc[i] = "log_error" -> log_error(arg[i])

AfterPrint(p) ==
  CASE p = "copy_info" -> "copy_warn"
    [] p = "copy_warn" -> "copy_ret"
    [] p = "log_error" -> "done"

StmtPieces(i) == FmtPieces(Stmt(i).tmpl, <<Stmt(i).arg>>, NoNamed, 1)

Chunk(i, n) == [by |-> i, stmt |-> pc[i], text |-> StmtPieces(i)[n]]

\* a write that does not wait for the lock
LockIgnored(s, i) == TRUE

\* Stdout::write_fmt / Stderr::write_fmt take the stream's lock for the
\* whole call
LockFree(s, i) == lock[s] = 0

\* println! takes the lock and writes the first piece
PrintBegin(i) ==
  /\ pc[i] \in Printing
  /\ written[i] = 0
  /\ LockFree(Stmt(i).stream, i)
  /\ lock' = [lock EXCEPT ![Stmt(i).stream] = i]
  /\ streams' = [streams EXCEPT ![Stmt(i).stream] = Append(@, Chunk(i, 1))]
  /\ written' = [written EXCEPT ![i] = 1]
  /\ UNCHANGED <<cmd, arg, pc, buf, result, errVars>>

\* a piece that is neither the first nor the last
PrintMore(i) ==
  /\ pc[i] \in Printing
  /\ written[i] > 0
  /\ written[i] + 1 < Len(StmtPieces(i))
  /\ streams' = [streams EXCEPT ![Stmt(i).stream] =
                                   Append(@, Chunk(i, written[i] + 1))]
  /\ written' = [written EXCEPT ![i] = @ + 1]
  /\ UNCHANGED <<cmd, arg, pc, buf, result, lock, errVars>>

\* the last piece (it ends with the newline), then the lock is dropped
PrintEnd(i) ==
  /\ pc[i] \in Printing
  /\ written[i] > 0
  /\ written[i] + 1 = Len(StmtPieces(i))
  /\ streams' = [streams EXCEPT ![Stmt(i).stream] =
                                   Append(@, Chunk(i, written[i] + 1))]
  /\ lock' = [lock EXCEPT ![Stmt(i).stream] = 0]
  /\ written' = [written EXCEPT ![i] = 0]
  /\ pc' = [pc EXCEPT ![i] = AfterPrint(pc[i])]
  /\ UNCHANGED <<cmd, arg, buf, result, errVars>>

CopyReturn(i) ==
  /\ pc[i] = "copy_ret"
  /\ result' = [result EXCEPT ![i] = copy_to_clipboard_result]
  /\ pc' = [pc EXCEPT ![i] = "done"]
  /\ UNCHANGED <<cmd, arg, buf, written, streams, lock, errVars>>

Next ==
  \/ \E i \in Calls : \E a \in Names : Invoke(i, "greet", a)
  \/ \E i \in Calls : \E a \in Texts : Invoke(i, "copy_to_clipboard", a)
  \/ \E i \in Calls : \E a \in ErrorMessages : Invoke(i, "log_error", a)
  \/ \E i \in Calls : GreetReturn(i)
  \/ \E i \in Calls : CopyFormatInfo(i)
  \/ \E i \in Calls : PrintBegin(i)
  \/ \E i \in Calls : PrintMore(i)
  \/ \E i \in Calls : PrintEnd(i)
  \/ \E i \in Calls : CopyReturn(i)

Spec == Init /\ [][Next]_vars

(* --------------------------- error taxonomy ---------------------------- *)

\* one of the three variant constructors
Construct(s, e) ==
  /\ lerr[s] = NoError
  /\ lerr' = [lerr EXCEPT ![s] = e]
  /\ UNCHANGED <<ioErr, shown, cmdVars>>

\* LauncherError::from(err)
Convert(s, err) ==
  /\ lerr[s] = NoError
  /\ ioErr' = [ioErr EXCEPT ![s] = err]
  /\ lerr' = [lerr EXCEPT ![s] = from(err)]
  /\ UNCHANGED <<shown, cmdVars>>

\* err.to_string()
Render(s) ==
  /\ lerr[s] # NoError
  /\ Len(shown[s]) < MaxRenders
  /\ shown' = [shown EXCEPT ![s] = Append(@, to_string(lerr[s]))]
  /\ UNCHANGED <<ioErr, lerr, cmdVars>>

\* the value is dropped
Discard(s) ==
  /\ lerr[s] # NoError
  /\ ioErr' = [ioErr EXCEPT ![s] = NoIoError]
  /\ lerr' = [lerr EXCEPT ![s] = NoError]
  /\ shown' = [shown EXCEPT ![s] = <<>>]
  /\ UNCHANGED cmdVars

NextTaxonomy ==
  \/ \E s \in Slots : \E e \in Constructed : Construct(s, e)
  \/ \E s \in Slots : \E err \in IoErrors : Convert(s, err)
  \/ \E s \in Slots : Render(s)
  \/ \E s \in Slots : Discard(s)

SpecTaxonomy == Init /\ [][NextTaxonomy]_vars

(* ------------------------- reading the streams ------------------------- *)

RECURSIVE TextOf(_)
TextOf(chunks) ==
  IF chunks = <<>> THEN <<>> ELSE Head(chunks).text \o TextOf(Tail(chunks))

\* what invocation i has written to stream s, in order
OwnText(i, s) == TextOf(SelectSeq(streams[s], LAMBDA c : c.by = i))

Newlines(t) == Cardinality({k \in 1..Len(t) : CharAt(t, k) = "\n"})

\* the complete lines of a text, each with its newline
RECURSIVE SplitLines(_)
SplitLines(t) ==
  LET nl == Find(t, "\n")
  IN  IF nl > Len(t) THEN <<>>
      ELSE <<SubSeq(t, 1, nl)>> \o SplitLines(From(t, nl + 1))

\* indices of the chunks that end a line
LineEnds(chunks) ==
  {k \in 1..Len(chunks) :
     Len(chunks[k].text) > 0
       /\ CharAt(chunks[k].text, Len(chunks[k].text)) = "\n"}

LineStart(chunks, e) ==
  LET before == {k \in LineEnds(chunks) : k < e}
  IN  IF before = {} THEN 1
      ELSE (CHOOSE m \in before : \A n \in before : n <= m) + 1

LineText(chunks, e) == TextOf(SubSeq(chunks, LineStart(chunks, e), e))

IsPrefixSeq(s, t) == Len(s) <= Len(t) /\ SubSeq(t, 1, Len(s)) = s

\* the byte length of each text of Texts, in decimal
ExpectedLength(t) ==
  CASE t = <<>> -> <<"0">>
    [] t = Str_hello -> <<"5">>
    [] t = Str_he -> <<"3">>
    [] t = Str_hello_world -> <<"1", "2">>

InfoLine(t) ==
  Txt_InfoHead
    \o ExpectedLength(t) \o <<"\n">>

WarnLine ==
  Txt_WarnLine

Copies == {i \in Calls : cmd[i] = "copy_to_clipboard"}

Greets == {i \in Calls : cmd[i] = "greet"}

Quiescent == \A i \in Calls : pc[i] \in {"idle", "done"}

Returned(i) == pc[i] = "done"

(* ------------------------------ C1 ------------------------------------- *)

\* C1: a copy_to_clipboard invocation never holds a success, and once it
\* has returned its result is the failure "Clipboard operation failed",
\* for every text and whatever invocations ran before it.
C1_CopyAlwaysFails ==
  \A i \in Copies :
     /\ result[i].tag # "Ok"
     /\ Returned(i) =>
          result[i] = [tag |-> "Err", value |-> Txt_ClipboardFailed]

\* an invocation with the empty text has returned after an earlier
\* invocation had returned
C1_Witness ==
  \E i \in Copies : \E j \in Calls :
     j < i /\ Returned(j) /\ Returned(i) /\ arg[i] = <<>>
       /\ result[i].tag = "Err"

(* ------------------------------ C2 ------------------------------------- *)

\* C2: what a returned copy_to_clipboard invocation wrote is exactly two
\* lines, the [INFO] line with the byte length of its text and then the
\* [WARN] line, all on stdout and none with the [ERROR] prefix; when no
\* invocation is running, stdout holds two lines per copy_to_clipboard
\* invocation made.
C2_TwoLinesPerCopy ==
  /\ \A i \in Copies :
       Returned(i) =>
         LET own == OwnText(i, "stdout")
             ls  == SplitLines(own)
         IN  /\ OwnText(i, "stderr") = <<>>
             /\ Len(ls) = 2
             /\ own = ls[1] \o ls[2]
             /\ ls[1] = Txt_InfoHead
                          \o ExpectedLength(arg[i]) \o <<"\n">>
             /\ ls[2] = WarnLine
             /\ \A k \in 1..Len(ls) : ~StartsWith(ls[k], Txt_ERROR_tag)
  /\ Quiescent =>
       Newlines(TextOf(streams.stdout))
         = 2 * Cardinality({i \in Copies : Returned(i)})

\* two invocations have returned, one of them with the text "hello", and
\* stdout holds four lines
C2_Witness ==
  /\ Quiescent
  /\ Cardinality({i \in Copies : Returned(i)}) = 2
  /\ Newlines(TextOf(streams.stdout)) = 4
  /\ \E i \in Copies :
       /\ arg[i] = Str_hello
       /\ Contains(OwnText(i, "stdout"), Txt_Length5ThenWarn)

(* ------------------------------ C3 ------------------------------------- *)

\* C3: a greet invocation that has returned returned, as a success,
\* "Hello, " then its name verbatim then "! You've been greeted from Rust!",
\* also for the empty name and for names holding {} or {name}.
C3_GreetTemplate ==
  \A i \in Greets :
     Returned(i) =>
       /\ result[i].tag = "Ok"
       /\ result[i].value
            = Txt_Hello \o arg[i] \o Txt_Greeted

\* greet has returned for a name that holds a placeholder
C3_Witness ==
  \E i \in Greets :
     /\ Returned(i)
     /\ arg[i] \in {Str_Braces, Str_BracedName, Str_TwoBraces}
     /\ Contains(result[i].value, arg[i])

(* ------------------------------ C4 ------------------------------------- *)

Converted == {s \in Slots : ioErr[s] # NoIoError}

\* C4: whatever the kind and the message of the std::io::Error, the
\* conversion yields a value, the value is the FileReadFailed variant, its
\* path is "unknown" and its details contain the error's message.
C4_ConversionTotal ==
  \A s \in Converted :
     /\ lerr[s] # NoError
     /\ lerr[s].tag = "FileReadFailed"
     /\ lerr[s].path = Str_unknown
     /\ Contains(lerr[s].details, ioErr[s].text)

\* an error of a kind handled by the default arm and a permission error
\* have both been converted
C4_Witness ==
  \E s, t \in Converted :
     /\ ioErr[s].kind = "AlreadyExists"
     /\ ioErr[s].text = Str_disk_full
     /\ ioErr[t].kind = "PermissionDenied"
     /\ lerr[s].tag = "FileReadFailed"

(* ------------------------------ C5 ------------------------------------- *)

\* C5: the details of a converted error are "Permission denied: " followed
\* by the error's message exactly when its kind is PermissionDenied, and
\* the message alone for NotFound and for every other kind.
C5_DetailsPrefix ==
  \A s \in Converted :
     /\ (lerr[s].details = Txt_PermissionDenied \o ioErr[s].text)
          <=> (ioErr[s].kind = "PermissionDenied")
     /\ ioErr[s].kind # "PermissionDenied" =>
          lerr[s].details = ioErr[s].text

\* a permission error and a not-found error with the same message have
\* been converted
C5_Witness ==
  \E s, t \in Converted :
     /\ ioErr[s].kind = "PermissionDenied"
     /\ ioErr[t].kind = "NotFound"
     /\ ioErr[s].text = ioErr[t].text
     /\ lerr[s].details # lerr[t].details

(* ------------------------------ C6 ------------------------------------- *)

ExpectedRendering(e) ==
  CASE e.tag = "FileReadFailed" ->
         Txt_FailedToRead \o e.path \o Txt_Colon \o e.details
    [] e.tag = "FileWriteFailed" ->
         Txt_FailedToWrite \o e.path \o Txt_Colon \o e.details
    [] e.tag = "ClipboardFailed" -> Txt_ClipboardFailed

\* C6: every rendering made of a value is the fixed text of its variant
\* with its fields in place, and any two renderings of values with the
\* same variant and fields, or of the same value, are the same string.
C6_RenderingDeterministic ==
  /\ \A s \in Slots :
       \A k \in 1..Len(shown[s]) : shown[s][k] = ExpectedRendering(lerr[s])
  /\ \A s, t \in Slots :
       lerr[s] = lerr[t] =>
         \A j \in 1..Len(shown[s]) :
            \A k \in 1..Len(shown[t]) : shown[s][j] = shown[t][k]

\* FileReadFailed{path: "a", details: "b"} was constructed twice and each
\* value rendered twice
C6_Witness ==
  /\ \A s \in Slots :
       lerr[s] = FileReadFailed(Str_a, Str_b) /\ Len(shown[s]) = 2
  /\ shown["s1"][1] = Txt_FailedToRead_a_b

(* ------------------------------ C7 ------------------------------------- *)

LastLineEnd(chunks) ==
  IF LineEnds(chunks) = {} THEN 0
  ELSE CHOOSE m \in LineEnds(chunks) : \A n \in LineEnds(chunks) : n <= m

\* C7: every complete line of stdout was written whole by one println! of
\* one copy_to_clipboard invocation and is that invocation's [INFO] line or
\* the [WARN] line, and the unfinished line at the end of stdout, if any,
\* was written by a single invocation.
C7_LineAtomic ==
  LET out == streams.stdout
  IN  /\ \A e \in LineEnds(out) :
           /\ \A k \in LineStart(out, e)..e :
                out[k].by = out[e].by /\ out[k].stmt = out[e].stmt
           /\ out[e].by \in Copies
           /\ LineText(out, e) \in {InfoLine(arg[out[e].by]), WarnLine}
      /\ \A k, m \in (LastLineEnd(out) + 1)..Len(out) :
           out[k].by = out[m].by /\ out[k].stmt = out[m].stmt

\* one invocation is in the middle of a line, after a whole line of
\* another invocation that is now waiting to write its next line
C7_Witness ==
  \E i, j \in Copies :
     /\ i # j
     /\ lock.stdout = i
     /\ written[i] = 2
     /\ pc[j] = "copy_warn"
     /\ written[j] = 0
     /\ \E e \in LineEnds(streams.stdout) : streams.stdout[e].by = j

(* ------------------------------ C8 ------------------------------------- *)

SoloResult(c, a) ==
  CASE c = "greet" ->
         [tag |-> "Ok",
          value |-> Txt_Hello \o a \o Txt_Greeted]
    [] c = "copy_to_clipboard" ->
         [tag |-> "Err", value |-> Txt_ClipboardFailed]

\* C8: in every step, whatever else is running, an invocation that has
\* returned holds the result its command gives for its own input when run
\* alone, and the command and input of a started invocation are not
\* changed by any step.
C8_SelfContained ==
  [][/\ \A i \in Calls :
          (pc'[i] = "done" /\ cmd'[i] \in {"greet", "copy_to_clipboard"}) =>
            result'[i] = SoloResult(cmd'[i], arg'[i])
     /\ \A i \in Calls :
          pc[i] # "idle" => (cmd'[i] = cmd[i] /\ arg'[i] = arg[i])
    ]_vars

\* a greet invocation started after a copy_to_clipboard invocation and
\* returned while that one was in the middle of a line
C8_Witness ==
  \E i \in Copies : \E j \in Greets :
     /\ i < j
     /\ lock.stdout = i
     /\ Returned(j)
     /\ result[j].tag = "Ok"

(* ------------------------------ C9 ------------------------------------- *)

StreamNames == {"stdout", "stderr"}

\* no step changes or removes what a stream already holds
AppendOnly == \A s \in StreamNames : IsPrefixSeq(streams[s], streams'[s])

\* all lines written so far, of whatever severity, are in one stream
OneStream == \E s \in StreamNames : \A o \in StreamNames \ {s} : streams[o] = <<>>

\* [INFO] and [WARN] lines are on stdout, [ERROR] lines on stderr
Routed ==
  /\ \A e \in LineEnds(streams.stdout) :
       \/ StartsWith(LineText(streams.stdout, e), Txt_INFO)
       \/ StartsWith(LineText(streams.stdout, e), Txt_WARN)
  /\ \A e \in LineEnds(streams.stderr) :
       StartsWith(LineText(streams.stderr, e), Txt_ERROR)

\* C9 as stated: the lines of the three severities go to one single
\* stream, which is append-only.
C9_SingleStream == []OneStream /\ [][AppendOnly]_vars

\* C9 as amended: [INFO] and [WARN] lines are appended to stdout and
\* [ERROR] lines to stderr, and no step changes or removes what either
\* stream already holds.
C9_TwoStreamsAppendOnly == []Routed /\ [][AppendOnly]_vars

\* a complete [ERROR] line is on stderr and complete [INFO] and [WARN]
\* lines are on stdout
C9_Witness ==
  /\ \E e \in LineEnds(streams.stderr) :
       LineText(streams.stderr, e) = Txt_ErrorBoomLine
  /\ Newlines(TextOf(streams.stdout)) = 2

(* ------------------------------ C10 ------------------------------------ *)

\* C10: what a copy_to_clipboard invocation has written to stdout is at
\* every moment a prefix of its [INFO] line followed by its [WARN] line,
\* and once it holds a result it has written both lines in full.
C10_InfoThenWarnThenReturn ==
  \A i \in Copies :
     LET own  == OwnText(i, "stdout")
         full == InfoLine(arg[i]) \o WarnLine
     IN  /\ StartsWith(full, own)
         /\ result[i] # Pending => own = full

\* an invocation has returned although a line of another invocation came
\* between its two lines
C10_Witness ==
  \E i, j \in Copies :
     /\ i # j
     /\ result[i].tag = "Err"
     /\ \E a, b, c \in LineEnds(streams.stdout) :
          /\ a < b /\ b < c
          /\ streams.stdout[a].by = i
          /\ streams.stdout[b].by = j
          /\ streams.stdout[c].by = i

============================================================================
